---- MODULE Spec2Model ----
(***************************************************************************)
(* Fractal-Gallery: the escape-time engine (src/src/mandelbrot.py,         *)
(* src/src/julia.py), the parameter validation of                          *)
(* src/src/config_manager.py, the extent of src/src/file_utils.py and the  *)
(* CLI commands of src/main.py.                                            *)
(*                                                                         *)
(* Numbers.  Python ints are TLA+ integers.  A Python float is a rational  *)
(* <<n, d>> in lowest terms (d > 0) that has at most MantBits significant  *)
(* bits; every floating-point operation is the exact operation followed by *)
(* round-to-nearest-even (Fl), with gradual underflow: every float is a    *)
(* multiple of 2^-MinExp.  The exponent is not bounded above, so overflow  *)
(* to inf and NaN are outside the model.  numba's fastmath flag may        *)
(* reassociate operations; the model evaluates them in source order.       *)
(***************************************************************************)
EXTENDS Integers, Sequences, FiniteSets, TLC

\* ------------------------------- bounds --------------------------------
\* significant bits of a float (a Python float has 53)
MantBits == 4
\* the smallest positive float is 2^-MinExp (a Python float: 2^-1074)
MinExp == 10
\* largest width / height drawn as an input
MaxDim == 2
\* largest max_iter drawn as an input
MaxIter == 3

\* ----------------------------- rationals -------------------------------
AbsInt(n) == IF n < 0 THEN -n ELSE n

RECURSIVE Gcd(_, _)
Gcd(a, b) == IF b = 0 THEN a ELSE Gcd(b, a % b)

RECURSIVE Pow2(_)
Pow2(k) == IF k <= 0 THEN 1 ELSE 2 * Pow2(k - 1)

\* the rational n/d in lowest terms, d # 0
Rat(n, d) ==
    LET g == Gcd(AbsInt(n), AbsInt(d))
        s == IF d < 0 THEN -1 ELSE 1
    IN  <<(s * n) \div g, (s * d) \div g>>

RInt(n) == <<n, 1>>

RNeg(a) == <<-a[1], a[2]>>

RAdd(a, b) ==
    LET g == Gcd(a[2], b[2])
    IN  Rat(a[1] * (b[2] \div g) + b[1] * (a[2] \div g), (a[2] \div g) * b[2])

RSub(a, b) == RAdd(a, RNeg(b))

RMul(a, b) ==
    LET g1 == Gcd(AbsInt(a[1]), b[2])
        g2 == Gcd(AbsInt(b[1]), a[2])
    IN  Rat((a[1] \div g1) * (b[1] \div g2), (a[2] \div g2) * (b[2] \div g1))

\* b # 0
RDiv(a, b) == RMul(a, Rat(b[2], b[1]))

RLess(a, b) ==
    LET g == Gcd(a[2], b[2])
    IN  a[1] * (b[2] \div g) < b[1] * (a[2] \div g)

RLeq(a, b) == a = b \/ RLess(a, b)

RZero == <<0, 1>>

\* ------------------------------- floats --------------------------------
\* scale a/d by a power of two 2^-e into [2^(MantBits-1), 2^MantBits), or
\* below that when e has reached -MinExp (a subnormal); a, d > 0
RECURSIVE FlNorm(_, _, _)
FlNorm(a, d, e) ==
    IF a >= d * Pow2(MantBits) THEN FlNorm(a, 2 * d, e + 1)
    ELSE IF a < d * Pow2(MantBits - 1) /\ e > -MinExp THEN FlNorm(2 * a, d, e - 1)
    ELSE <<a, d, e>>

\* a/d rounded to the nearest integer, ties to even; a >= 0, d > 0
RoundHalfEven(a, d) ==
    LET q == a \div d
        r == a % d
    IN  IF 2 * r < d THEN q
        ELSE IF 2 * r > d THEN q + 1
        ELSE IF q % 2 = 0 THEN q ELSE q + 1

\* the float nearest to the rational x
Fl(x) ==
    IF x[1] = 0 THEN RZero
    ELSE LET t == FlNorm(AbsInt(x[1]), x[2], 0)
             m == RoundHalfEven(t[1], t[2])
             s == IF x[1] < 0 THEN -1 ELSE 1
         IN  IF t[3] >= 0 THEN Rat(s * m * Pow2(t[3]), 1)
             ELSE Rat(s * m, Pow2(-t[3]))

IsFloat(x) == Fl(x) = x

FAdd(a, b) == Fl(RAdd(a, b))
FSub(a, b) == Fl(RSub(a, b))
FMul(a, b) == Fl(RMul(a, b))
FDiv(a, b) == Fl(RDiv(a, b))

\* --------------------------- complex numbers ---------------------------
Complex(re, im) == [re |-> re, im |-> im]

CZero == Complex(RZero, RZero)

\* z * z + c of mandelbrot.py:37 and julia.py:38
CMul(a, b) ==
    Complex(FSub(FMul(a.re, b.re), FMul(a.im, b.im)),
            FAdd(FMul(a.re, b.im), FMul(a.im, b.re)))

CAdd(a, b) == Complex(FAdd(a.re, b.re), FAdd(a.im, b.im))

\* an escape test with the radius 4
AbsGt4(z) == RLess(RInt(16), RAdd(RMul(z.re, z.re), RMul(z.im, z.im)))

\* an escape test that takes the unit circle for escaped
AbsGe1(z) == RLeq(RInt(1), RAdd(RMul(z.re, z.re), RMul(z.im, z.im)))

\* an escape test that takes the circle of radius 2 for escaped
AbsGe2(z) == RLeq(RInt(4), RAdd(RMul(z.re, z.re), RMul(z.im, z.im)))

\* abs(z) > 2.0: abs is the correctly rounded sqrt(re^2 + im^2), and it
\* rounds to a float above 2 exactly when it lies above the midpoint of 2 and
\* the next float, 2 + 2^(1 - MantBits) (the tie goes to 2, whose mantissa is
\* even).
EscapeMid == Rat(Pow2(MantBits) + 1, Pow2(MantBits - 1))

AbsGt2(z) ==
    RLess(RMul(EscapeMid, EscapeMid),
          RAdd(RMul(z.re, z.re), RMul(z.im, z.im)))

\* ------------------------------- kernels -------------------------------
\* a kernel that counts one step past the bound when the point never escapes
RECURSIVE EscapeLoopPastBound(_, _, _, _)
EscapeLoopPastBound(i, z, c, max_iter) ==
    IF i >= max_iter THEN max_iter + 1
    ELSE IF AbsGt2(z) THEN i
    ELSE EscapeLoopPastBound(i + 1, CAdd(CMul(z, z), c), c, max_iter)

\* a step-then-check kernel: the value is squared before it is tested
RECURSIVE EscapeLoopStepFirst(_, _, _, _)
EscapeLoopStepFirst(i, z, c, max_iter) ==
    IF i >= max_iter THEN max_iter
    ELSE IF AbsGt2(CAdd(CMul(z, z), c)) THEN i
    ELSE EscapeLoopStepFirst(i + 1, CAdd(CMul(z, z), c), c, max_iter)

\* a kernel that reports the iterations left when the point escapes
RECURSIVE EscapeLoopRemaining(_, _, _, _)
EscapeLoopRemaining(i, z, c, max_iter) ==
    IF i >= max_iter THEN max_iter
    ELSE IF AbsGt2(z) THEN max_iter - i
    ELSE EscapeLoopRemaining(i + 1, CAdd(CMul(z, z), c), c, max_iter)

\* the loop "for i in range(max_iter)" of julia_point, entered at index i
\* with value z
RECURSIVE EscapeLoop(_, _, _, _)
EscapeLoop(i, z, c, max_iter) ==
    IF i >= max_iter THEN max_iter
    ELSE IF AbsGt2(z) THEN i
    ELSE EscapeLoop(i + 1, CAdd(CMul(z, z), c), c, max_iter)

julia_point(z, c, max_iter) == EscapeLoop(0, z, c, max_iter)

\* a Mandelbrot loop that adds c before it squares
RECURSIVE MandelbrotLoopAddFirst(_, _, _, _)
MandelbrotLoopAddFirst(i, z, c, max_iter) ==
    IF i >= max_iter THEN max_iter
    ELSE IF AbsGt2(z) THEN i
    ELSE MandelbrotLoopAddFirst(i + 1, CMul(CAdd(z, c), CAdd(z, c)), c, max_iter)

\* the loop "for i in range(max_iter)" of mandelbrot_point, entered at index
\* i with value z
RECURSIVE MandelbrotLoop(_, _, _, _)
MandelbrotLoop(i, z, c, max_iter) ==
    IF i >= max_iter THEN max_iter
    ELSE IF AbsGt2(z) THEN i
    ELSE MandelbrotLoop(i + 1, CAdd(CMul(z, z), c), c, max_iter)

\* a Mandelbrot kernel whose loop is one iteration short
mandelbrot_point_short(c, max_iter) == MandelbrotLoop(0, CZero, c, max_iter - 1)

\* a Mandelbrot kernel that starts the orbit at c
mandelbrot_point_from_c(c, max_iter) == MandelbrotLoop(0, c, c, max_iter)

\* a Mandelbrot kernel that does not count the iteration from 0 to c
mandelbrot_point_uncounted(c, max_iter) == MandelbrotLoop(1, c, c, max_iter) - 1

mandelbrot_point(c, max_iter) == MandelbrotLoop(0, CZero, c, max_iter)

\* ------------------------------ arguments ------------------------------
\* an optional argument: None, or Some(v)
None == <<>>
Some(v) == <<v>>
IsNone(o) == Len(o) = 0
Val(o) == o[1]

\* ------------------------------ generators -----------------------------
\* default_params of the two generators.  The source's 800 x 600 pixels and
\* 100 iterations are scaled down to 2 x 1 pixels and 2 iterations.
MandelbrotDefaults ==
    [width |-> 2, height |-> 1, max_iter |-> 2,
     x_center |-> Rat(-1, 2), y_center |-> RZero, zoom |-> RInt(1),
     colormap |-> "hot"]

JuliaDefaults ==
    [width |-> 2, height |-> 1, max_iter |-> 2,
     x_center |-> RZero, y_center |-> RZero, zoom |-> RInt(1),
     colormap |-> "plasma"]

\* "if k is not None: params[k] = k" for every argument of generate
MergeArgs(defaults, args) ==
    [k \in DOMAIN defaults |->
        IF k \in DOMAIN args /\ ~IsNone(args[k]) THEN Val(args[k])
        ELSE defaults[k]]

\* a params dict that is default_params itself: the assignments reach it
AfterCopyAliased(defaults, p) == p

\* default_params after "params = self.default_params.copy()" and the
\* assignments that made the copy p: they went to the copy
AfterCopy(defaults, p) == defaults

\* generate called with no argument
NoArgs == <<>>

\* an allocation that hands out the array the caller still holds
NewArrayReused(held) == IF DOMAIN held = {} THEN 1 ELSE held.id

\* np.zeros: the identity of the new array, that of no array still held
NewArray(held) == IF DOMAIN held = {} THEN 1 ELSE held.id + 1

\* bounds that ignore the aspect ratio: both half-extents are base_extent / 2
calculate_bounds_square(x_center, y_center, zoom, width, height) ==
    IF height = 0 THEN [err |-> "ZeroDivisionError"]
    ELSE IF zoom = RZero THEN [err |-> "ZeroDivisionError"]
    ELSE LET base_extent  == FDiv(RInt(4), zoom)
             y_extent     == FDiv(base_extent, RInt(2))
         IN  [err   |-> "none",
              x_min |-> FSub(x_center, y_extent),
              x_max |-> FAdd(x_center, y_extent),
              y_min |-> FSub(y_center, y_extent),
              y_max |-> FAdd(y_center, y_extent)]

\* bounds whose extent grows with zoom: base_extent = 4.0 * zoom
calculate_bounds_times_zoom(x_center, y_center, zoom, width, height) ==
    IF height = 0 THEN [err |-> "ZeroDivisionError"]
    ELSE IF zoom = RZero THEN [err |-> "ZeroDivisionError"]
    ELSE LET aspect_ratio == FDiv(RInt(width), RInt(height))
             base_extent  == FMul(RInt(4), zoom)
             x_extent     == FDiv(FMul(base_extent, aspect_ratio), RInt(2))
             y_extent     == FDiv(base_extent, RInt(2))
         IN  [err   |-> "none",
              x_min |-> FSub(x_center, x_extent),
              x_max |-> FAdd(x_center, x_extent),
              y_min |-> FSub(y_center, y_extent),
              y_max |-> FAdd(y_center, y_extent)]

\* bounds returned in the order (max, min)
calculate_bounds_reversed(x_center, y_center, zoom, width, height) ==
    IF height = 0 THEN [err |-> "ZeroDivisionError"]
    ELSE IF zoom = RZero THEN [err |-> "ZeroDivisionError"]
    ELSE LET aspect_ratio == FDiv(RInt(width), RInt(height))
             base_extent  == FDiv(RInt(4), zoom)
             x_extent     == FDiv(FMul(base_extent, aspect_ratio), RInt(2))
             y_extent     == FDiv(base_extent, RInt(2))
         IN  [err   |-> "none",
              x_min |-> FAdd(x_center, x_extent),
              x_max |-> FSub(x_center, x_extent),
              y_min |-> FAdd(y_center, y_extent),
              y_max |-> FSub(y_center, y_extent)]

\* the outcome of calculate_bounds: the bounds, or the exception it raises
calculate_bounds(x_center, y_center, zoom, width, height) ==
    IF height = 0 THEN [err |-> "ZeroDivisionError"]
    ELSE IF zoom = RZero THEN [err |-> "ZeroDivisionError"]
    ELSE LET aspect_ratio == FDiv(RInt(width), RInt(height))
             base_extent  == FDiv(RInt(4), zoom)
             x_extent     == FDiv(FMul(base_extent, aspect_ratio), RInt(2))
             y_extent     == FDiv(base_extent, RInt(2))
         IN  [err   |-> "none",
              x_min |-> FSub(x_center, x_extent),
              x_max |-> FAdd(x_center, x_extent),
              y_min |-> FSub(y_center, y_extent),
              y_max |-> FAdd(y_center, y_extent)]

\* the extent plot draws the image with: [x_min, x_max, y_min, y_max]
plot_extent(p) ==
    <<FSub(p.x_center, FDiv(RInt(2), p.zoom)),
      FAdd(p.x_center, FDiv(RInt(2), p.zoom)),
      FSub(p.y_center, FDiv(Rat(3, 2), p.zoom)),
      FAdd(p.y_center, FDiv(Rat(3, 2), p.zoom))>>

\* the cells of a height x width array, as <<row, column>>
Cells(width, height) == (0 .. height - 1) \X (0 .. width - 1)

\* np.zeros((height, width)) and the increments dx, dy: what mandelbrot_set
\* and julia_set do before their loops, or the exception raised there
SetProlog(width, height, b) ==
    IF width < 0 \/ height < 0 THEN [err |-> "ValueError"]
    ELSE IF width = 0 THEN [err |-> "ZeroDivisionError"]
    ELSE IF height = 0 THEN [err |-> "ZeroDivisionError"]
    ELSE [err    |-> "none",
          result |-> [cell \in Cells(width, height) |-> 0],
          dx     |-> FDiv(FSub(b.x_max, b.x_min), RInt(width)),
          dy     |-> FDiv(FSub(b.y_max, b.y_min), RInt(height))]

\* a pixel mapping that takes the column for the row
PixelPointSwapped(b, dx, dy, y, x) ==
    Complex(FAdd(b.x_min, FMul(RInt(y), dx)), FAdd(b.y_min, FMul(RInt(x), dy)))

\* complex(x_min + x * dx, y_min + y * dy)
PixelPoint(b, dx, dy, y, x) ==
    Complex(FAdd(b.x_min, FMul(RInt(x), dx)), FAdd(b.y_min, FMul(RInt(y), dy)))

\* the value the loop body computes for pixel (y, x)
PixelValue(kind, p, c, max_iter) ==
    IF kind = "mandelbrot" THEN mandelbrot_point(p, max_iter)
    ELSE julia_point(p, c, max_iter)

\* a store that also overwrites the next cell of the row
StoreCellClobber(res, y, x, v) ==
    [cell \in DOMAIN res |->
        IF cell = <<y, x>> \/ cell = <<y, x + 1>> THEN v ELSE res[cell]]

\* result[y, x] = v
StoreCell(res, y, x, v) == [res EXCEPT ![<<y, x>>] = v]

\* -------------------------------- strings -------------------------------
\* a Python str is the sequence of its characters
UpperCase ==
    <<"A", "B", "C", "D", "E", "F", "G", "H", "I", "J", "K", "L", "M",
      "N", "O", "P", "Q", "R", "S", "T", "U", "V", "W", "X", "Y", "Z">>

LowerCase ==
    <<"a", "b", "c", "d", "e", "f", "g", "h", "i", "j", "k", "l", "m",
      "n", "o", "p", "q", "r", "s", "t", "u", "v", "w", "x", "y", "z">>

LowerChar(ch) ==
    IF \E i \in DOMAIN UpperCase : UpperCase[i] = ch
    THEN LowerCase[CHOOSE i \in DOMAIN UpperCase : UpperCase[i] = ch]
    ELSE ch

\* a lookup that keeps the letter case of the string
LowerKeepCase(s) == s

\* str.lower()
Lower(s) == [i \in 1 .. Len(s) |-> LowerChar(s[i])]

\* a replace that leaves the string as it is
ReplaceNothing(s, old, new) == s

\* str.replace(old, new) for a character old; new is a str
RECURSIVE Replace(_, _, _)
Replace(s, old, new) ==
    IF s = <<>> THEN <<>>
    ELSE (IF Head(s) = old THEN new ELSE <<Head(s)>>)
         \o Replace(Tail(s), old, new)

\* the str as the key of a dict
RECURSIVE Key(_)
Key(s) == IF s = <<>> THEN "" ELSE Head(s) \o Key(Tail(s))

\* the character at index k (from 1), "" past the end
At(s, k) == IF k \in 1 .. Len(s) THEN s[k] ELSE ""

DigitChars == <<"0", "1", "2", "3", "4", "5", "6", "7", "8", "9">>

IsDigit(ch) == \E i \in DOMAIN DigitChars : DigitChars[i] = ch

DigitVal(ch) == (CHOOSE i \in DOMAIN DigitChars : DigitChars[i] = ch) - 1

RECURSIVE Pow10(_)
Pow10(k) == IF k <= 0 THEN 1 ELSE 10 * Pow10(k - 1)

\* the index after the run of digits that starts at index i
RECURSIVE ScanDigits(_, _)
ScanDigits(s, i) == IF IsDigit(At(s, i)) THEN ScanDigits(s, i + 1) ELSE i

\* the number the digits s[i .. j-1] denote, 0 for no digit
RECURSIVE DigitsValue(_, _, _)
DigitsValue(s, i, j) ==
    IF j <= i THEN 0 ELSE 10 * DigitsValue(s, i, j - 1) + DigitVal(s[j - 1])

\* the index after the run of spaces that starts at index i
RECURSIVE SkipSpaces(_, _)
SkipSpaces(s, i) == IF At(s, i) = " " THEN SkipSpaces(s, i + 1) ELSE i

\* the float literal complex() reads at index i: [sign] digits [. digits] or
\* [sign] . digits, rounded to the nearest float.  Exponents, inf, nan and
\* underscores are not read: the strings of the model have none.
ParseDouble(s, i) ==
    LET hasSign == At(s, i) \in {"+", "-"}
        a       == IF hasSign THEN i + 1 ELSE i
        b       == ScanDigits(s, a)
        hasDot  == At(s, b) = "."
        d       == IF hasDot THEN ScanDigits(s, b + 1) ELSE b
        nFrac   == IF hasDot THEN d - (b + 1) ELSE 0
        mag     == Rat(DigitsValue(s, a, b) * Pow10(nFrac)
                         + (IF hasDot THEN DigitsValue(s, b + 1, d) ELSE 0),
                       Pow10(nFrac))
    IN  IF (b - a) + nFrac = 0 THEN [ok |-> FALSE, val |-> RZero, next |-> i]
        ELSE [ok   |-> TRUE,
              val  |-> Fl(IF At(s, i) = "-" THEN RNeg(mag) ELSE mag),
              next |-> d]

\* what complex(s) has read of the number: the parts and the index after them,
\* or ok = FALSE for a malformed number
Read(re, im, next) == [ok |-> TRUE, re |-> re, im |-> im, next |-> next]

Malformed == [ok |-> FALSE, re |-> RZero, im |-> RZero, next |-> 0]

\* <float><signed-float>j or <float><sign>j: f is the float read, g the
\* reading of a signed float after it
ComplexSecond(s, f, g) ==
    LET k == IF g.ok THEN g.next ELSE f.next + 1
    IN  IF At(s, k) \notin {"j", "J"} THEN Malformed
        ELSE IF g.ok THEN Read(f.val, g.val, k + 1)
        ELSE IF At(s, f.next) = "-" THEN Read(f.val, RInt(-1), k + 1)
        ELSE Read(f.val, RInt(1), k + 1)

\* the number that starts at index i, f being the reading of a float there:
\* <float>, <float>j, <float><signed-float>j, <float><sign>j, j, +j or -j
ComplexBody(s, i, f) ==
    IF f.ok
    THEN IF At(s, f.next) \in {"+", "-"}
         THEN ComplexSecond(s, f, ParseDouble(s, f.next))
         ELSE IF At(s, f.next) \in {"j", "J"}
         THEN Read(RZero, f.val, f.next + 1)
         ELSE Read(f.val, RZero, f.next)
    ELSE IF At(s, i) \in {"j", "J"} THEN Read(RZero, RInt(1), i + 1)
    ELSE IF At(s, i) = "+" /\ At(s, i + 1) \in {"j", "J"}
    THEN Read(RZero, RInt(1), i + 2)
    ELSE IF At(s, i) = "-" /\ At(s, i + 1) \in {"j", "J"}
    THEN Read(RZero, RInt(-1), i + 2)
    ELSE Malformed

\* after the number: whitespace, the closing parenthesis when one was opened,
\* whitespace, and the end of the string
ComplexEnd(s, paren, body) ==
    IF ~body.ok THEN [ok |-> FALSE, c |-> CZero]
    ELSE LET e0 == SkipSpaces(s, body.next)
             e1 == IF paren THEN SkipSpaces(s, e0 + 1) ELSE e0
         IN  IF (paren => At(s, e0) = ")") /\ e1 = Len(s) + 1
             THEN [ok |-> TRUE, c |-> Complex(body.re, body.im)]
             ELSE [ok |-> FALSE, c |-> CZero]

\* the number of complex(s) from index i on, paren telling whether a
\* parenthesis was opened before it
ComplexFrom(s, paren, i) ==
    ComplexEnd(s, paren, ComplexBody(s, i, ParseDouble(s, i)))

\* the built-in complex(s) on a str: the value, or ok = FALSE for ValueError
complex_from_string(s) ==
    IF At(s, SkipSpaces(s, 1)) = "("
    THEN ComplexFrom(s, TRUE, SkipSpaces(s, SkipSpaces(s, 1) + 1))
    ELSE ComplexFrom(s, FALSE, SkipSpaces(s, 1))

\* --------------------------- Julia constants ---------------------------
\* a decimal literal of the source, n/d, as the float it denotes
Dec(n, d) == Fl(Rat(n, d))

famous_julia_sets ==
    [classic   |-> Complex(Dec(-7, 10), Dec(27015, 100000)),
     dragon    |-> Complex(Dec(-8, 10), Dec(156, 1000)),
     spiral    |-> Complex(Dec(-7, 10), Dec(-3, 10)),
     lightning |-> Complex(Dec(-54, 100), Dec(54, 100)),
     dendrite  |-> Complex(Dec(-235, 1000), Dec(85, 100)),
     rabbit    |-> Complex(Dec(-123, 1000), Dec(745, 1000)),
     airplane  |-> Complex(Dec(-75, 100), Dec(1, 10)),
     galaxy    |-> Complex(Dec(285, 1000), Dec(1, 100)),
     flower    |-> Complex(Dec(-4, 10), Dec(6, 10)),
     seahorse  |-> Complex(Dec(-75, 100), Dec(11, 100))]

\* what parse_julia_c gives: the constant returned, or the ValueError raised
\* with the parts of its message (the text shown for the input and the formats
\* it names).  path is the branch that ended the call, lookups counts the uses
\* of famous_julia_sets.
Parsed(cc, path, lookups) ==
    [err |-> "none", c |-> cc, path |-> path, lookups |-> lookups,
     shown |-> <<>>, formats |-> {}]

ParseError(shown, formats, path, lookups) ==
    [err |-> "ValueError", c |-> CZero, path |-> path, lookups |-> lookups,
     shown |-> shown, formats |-> formats]

\* the inputs of parse_julia_c, tagged with their Python type: a complex, a
\* tuple or list of numbers, a str, or a value of another type
InComplex(z) == [tag |-> "complex", z |-> z, seq |-> <<>>, str |-> <<>>]
InSeq(t) == [tag |-> "seq", z |-> CZero, seq |-> t, str |-> <<>>]
Str(chars) == [tag |-> "str", z |-> CZero, seq |-> <<>>, str |-> chars]
InOther == [tag |-> "other", z |-> CZero, seq |-> <<>>, str |-> <<>>]

\* str(type(c_input)) for an input that is no complex, pair or str
TypeShown == <<"t", "y", "p", "e">>

\* a parse that takes a pair as (imag, real)
parse_julia_c_swapped(table, c_input) ==
    IF c_input.tag = "complex" THEN Parsed(c_input.z, "complex", 0)
    ELSE IF c_input.tag = "seq" /\ Len(c_input.seq) = 2
    THEN Parsed(Complex(Fl(c_input.seq[2]), Fl(c_input.seq[1])), "pair", 0)
    ELSE ParseError(TypeShown, {}, "type", 0)

\* a parse that takes every input that is no complex for the constant 0
parse_julia_c_lenient(table, c_input) ==
    IF c_input.tag = "complex" THEN Parsed(c_input.z, "complex", 0)
    ELSE Parsed(CZero, "literal", 1)

\* the complex literal: replaced is the string after its replace calls, r what
\* complex(replaced) gives
ParseLiteral(replaced, r) ==
    IF r.ok THEN Parsed(r.c, "literal", 1)
    ELSE ParseError(replaced, {"literal", "preset", "tuple"}, "literal", 1)

\* the str branch: key is c_input.lower(), table is self.famous_julia_sets
ParseStr(table, str, key) ==
    IF key \in DOMAIN table
    THEN Parsed(table[key], "preset", 2)
    ELSE ParseLiteral(Replace(Replace(str, "i", <<"j">>), " ", <<>>),
                      complex_from_string(
                          Replace(Replace(str, "i", <<"j">>), " ", <<>>)))

\* parse_julia_c of a generator whose famous_julia_sets is table
parse_julia_c(table, c_input) ==
    IF c_input.tag = "complex" THEN Parsed(c_input.z, "complex", 0)
    ELSE IF c_input.tag = "seq" /\ Len(c_input.seq) = 2
    THEN Parsed(Complex(Fl(c_input.seq[1]), Fl(c_input.seq[2])), "pair", 0)
    ELSE IF c_input.tag = "str"
    THEN ParseStr(table, c_input.str, Key(Lower(c_input.str)))
    ELSE ParseError(TypeShown, {}, "type", 0)

\* the order of the items of famous_julia_sets, a dict: the order of insertion
GalleryOrder ==
    <<"classic", "dragon", "spiral", "lightning", "dendrite", "rabbit",
      "airplane", "galaxy", "flower", "seahorse">>

\* the arguments generate_preset_gallery passes to generate.  The source's
\* 800 x 600 pixels and 150 iterations are scaled down like default_params.
GalleryArgs ==
    [width |-> Some(2), height |-> Some(1), max_iter |-> Some(3)]

\* the default of the julia_c argument of generate
JuliaCDefault == Str(<<"c", "l", "a", "s", "s", "i", "c">>)

\* ---------------------------- configuration ----------------------------
\* defaults of validate_parameters
MaxIterationsLimitDefault == 1000
MaxResolutionLimitDefault == 8192

\* _get_default_config(): what FractalConfig holds when the YAML file cannot
\* be loaded; it has no quality presets, no interesting points, no limits
DefaultConfig ==
    [quality_presets       |-> <<>>,
     interesting_points    |-> <<>>,
     max_iterations_limit  |-> MaxIterationsLimitDefault,
     max_resolution_limit  |-> MaxResolutionLimitDefault]

\* a configuration loaded from YAML: one quality preset, one interesting
\* point for mandelbrot, and limits small enough for the inputs to exceed
FileConfig ==
    [quality_presets       |->
        [preview |-> [width |-> 1, height |-> 2, max_iter |-> 1, dpi |-> 72]],
     interesting_points    |->
        [mandelbrot |-> [seahorse_valley |-> <<Rat(-3, 4), Rat(1, 8)>>]],
     max_iterations_limit  |-> 2,
     max_resolution_limit  |-> 2]

Configs == {DefaultConfig, FileConfig}

\* dict.get(key, default)
Get(d, key, default) == IF key \in DOMAIN d THEN d[key] ELSE default

\* d[key] = v
Put(d, key, v) ==
    [k \in DOMAIN d \cup {key} |-> IF k = key THEN v ELSE d[k]]

\* d.update(e)
Update(d, e) ==
    [k \in DOMAIN d \cup DOMAIN e |-> IF k \in DOMAIN e THEN e[k] ELSE d[k]]

\* validate_parameters: TRUE when it returns True, FALSE when it raises
validate_parameters(cfg, params) ==
    /\ ~(Get(params, "max_iter", 0) > cfg.max_iterations_limit)
    /\ ~(\/ Get(params, "width", 0) > cfg.max_resolution_limit
         \/ Get(params, "height", 0) > cfg.max_resolution_limit)

\* FractalFileManager._calculate_extent: the extent save_fractal_image draws
\* the image with
calculate_extent(p) ==
    LET zoom     == Get(p, "zoom", RInt(1))
        x_center == Get(p, "x_center", RZero)
        y_center == Get(p, "y_center", RZero)
        x_range  == FDiv(RInt(4), zoom)
        y_range  == FDiv(RInt(3), zoom)
    IN  <<FSub(x_center, FDiv(x_range, RInt(2))),
          FAdd(x_center, FDiv(x_range, RInt(2))),
          FSub(y_center, FDiv(y_range, RInt(2))),
          FAdd(y_center, FDiv(y_range, RInt(2)))>>

\* --------------------------------- CLI ---------------------------------
\* an option that yields to a key the preset has set
PutOptYields(d, key, opt) ==
    IF IsNone(opt) \/ key \in DOMAIN d THEN d ELSE Put(d, key, Val(opt))

\* "if opt is not None: params[key] = opt" for one command-line option
PutOpt(d, key, opt) == IF IsNone(opt) THEN d ELSE Put(d, key, Val(opt))

\* an explore point that yields to a centre given on the command line
ExploreCenterYields(coord, opt) == IF IsNone(opt) THEN Some(coord) ELSE opt

\* "center_x, center_y = center_coords": the coordinate of the explore point
\* takes the place of the option opt
ExploreCenter(coord, opt) == Some(coord)

GeneratorKeys ==
    {"width", "height", "max_iter", "x_center", "y_center", "zoom", "colormap"}

\* the commands mandelbrot and julia up to the call of generate: the preset,
\* the explore point (mandelbrot only), the command-line options, the
\* validation and the filter of the generator's keys
CliResolve(cmd, cfg, o) ==
    LET presetOk  == IsNone(o.preset) \/ Val(o.preset) \in DOMAIN cfg.quality_presets
        p0        == IF IsNone(o.preset) \/ ~presetOk THEN <<>>
                     ELSE cfg.quality_presets[Val(o.preset)]
        exploring == cmd = "mandelbrot" /\ ~IsNone(o.explore)
        points    == Get(cfg.interesting_points, "mandelbrot", <<>>)
        exploreOk == ~exploring \/ Val(o.explore) \in DOMAIN points
        cx        == IF exploring /\ exploreOk
                     THEN ExploreCenter(points[Val(o.explore)][1], o.center_x)
                     ELSE o.center_x
        cy        == IF exploring /\ exploreOk
                     THEN ExploreCenter(points[Val(o.explore)][2], o.center_y)
                     ELSE o.center_y
        p1        == PutOpt(p0, "width", o.width)
        p2        == PutOpt(p1, "height", o.height)
        p3        == PutOpt(p2, "max_iter", o.iterations)
        p4        == PutOpt(p3, "zoom", o.zoom)
        p5        == PutOpt(p4, "x_center", cx)
        p6        == PutOpt(p5, "y_center", cy)
        p7        == PutOpt(p6, "colormap", o.colormap)
    IN  IF ~presetOk THEN [end |-> "preset_error"]
        ELSE IF ~exploreOk THEN [end |-> "explore_error"]
        ELSE IF ~validate_parameters(cfg, p7) THEN [end |-> "validation_error"]
        ELSE [end  |-> "generate",
              args |-> [k \in DOMAIN p7 \cap GeneratorKeys |-> Some(p7[k])]]

\* -------------------------------- inputs --------------------------------
DimArgs == {None} \cup {Some(n) : n \in -1 .. MaxDim}

IterArgs == {None, Some(0), Some(1), Some(MaxIter)}

ZoomArgs == {None, Some(RZero), Some(RInt(2)), Some(RInt(1024))}

\* x_center and y_center
CenterArgs == {<<None, None>>, <<Some(RInt(1)), Some(RInt(3))>>}

\* x_center and y_center of a Mandelbrot call: also the origin
MandelbrotCenterArgs == CenterArgs \cup {<<Some(RZero), Some(RZero)>>}

\* the julia_c argument of generate
JuliaCArgs ==
    {InComplex(CZero),
     InComplex(Complex(RInt(-1), RZero)),
     Str(<<"c", "l", "a", "s", "s", "i", "c">>),
     Str(<<"b", "o", "g", "u", "s">>)}

\* the --julia-c option of the julia command
CliJuliaCArgs ==
    {Str(<<"c", "l", "a", "s", "s", "i", "c">>),
     Str(<<"h", "i">>)}

\* the strings parse_julia_c is called with
JuliaCStrings ==
    {<<"c", "l", "a", "s", "s", "i", "c">>,
     <<"C", "L", "A", "S", "S", "I", "C">>,
     <<"D", "r", "a", "g", "o", "n">>,
     <<"s", "P", "i", "R", "a", "L">>,
     <<"0", ".", "3", "+", "0", ".", "5", "i">>,
     <<"0", ".", "3", "+", "0", ".", "5", "j">>,
     <<"-", "0", ".", "7", "-", "0", ".", "2", "7", "i">>,
     <<"1", "+", "2", "i">>,
     <<"-", ".", "5", "+", "1", ".", "j">>,
     <<"0", ".", "3", " ", "+", " ", "0", ".", "5", "i">>,
     <<"2", "i">>,
     <<"i">>,
     <<"1", "+", "2">>,
     <<"1", "+", "+", "2", "i">>,
     <<"(", "1", "+", "2", "i", ")">>,
     <<>>,
     <<"b", "o", "g", "u", "s">>,
     <<"h", "i">>,
     <<"a", " ", "b">>,
     <<"c", "l", "a", "s", "s", "i", "c", " ">>}

\* the inputs parse_julia_c is called with
ParseInputs ==
    {Str(t) : t \in JuliaCStrings}
    \cup {InComplex(z) :
             z \in {CZero, Complex(RInt(-1), RZero),
                    Complex(Dec(3, 10), Dec(1, 2))}}
    \cup {InSeq(t) :
             t \in {<<RInt(2), RInt(-1)>>, <<Rat(1, 2), Rat(-3, 2)>>,
                    <<RZero, RZero, RZero>>}}
    \cup {InOther}

\* the points the kernels are called with: the origin, a point far outside
\* the disk of radius 2, points of magnitude 1 and 1.5, and points on and
\* just outside the circle of radius 2
KernelPoints ==
    {CZero,
     Complex(RInt(3), RInt(3)),
     Complex(RInt(1), RZero), Complex(RInt(-1), RZero),
     Complex(RZero, RInt(1)),
     Complex(Rat(3, 2), RZero), Complex(RZero, Rat(-3, 2)),
     Complex(RInt(2), RZero), Complex(RInt(-2), RZero),
     Complex(RInt(2), Rat(1, Pow2(MinExp))),
     Complex(RZero, RInt(-3)),
     Complex(Rat(5, 2), RZero)}

\* the constants julia_point is called with
KernelConstants == {CZero, Complex(RInt(-1), RZero), Complex(RInt(3), RInt(3))}

CliOptions ==
    [preset     : {None, Some("preview"), Some("bogus")},
     explore    : {None, Some("seahorse_valley"), Some("bogus")},
     width      : {None, Some(0), Some(3)},
     height     : {None, Some(-1)},
     iterations : {None, Some(0), Some(3)},
     zoom       : {None, Some(RZero), Some(RInt(2))},
     center_x   : {None, Some(RInt(1))},
     center_y   : {None},
     colormap   : {None, Some("viridis")}]

\* time.time() - start_time: zero when the clock did not advance
Elapsed == {0, 1}

\* --------------------------------- state --------------------------------
VARIABLES
    pc,            \* "ready", "pixels" (the loops of *_set run), "cli_save",
                   \* "gallery" (head of the gallery loop), "gallery_plot",
                   \* "done" (the call or command ended)
    via,           \* "api": generate called directly; "cli": by a command;
                   \* "gallery": by generate_preset_gallery
    kind,          \* "mandelbrot" or "julia"
    verbose,       \* the verbose argument of generate
    params,        \* the params dict of generate
    c,             \* the Julia constant parse_julia_c returned
    view,          \* x_min, x_max, y_min, y_max of calculate_bounds, dx, dy
    result,        \* the array result of *_set, cell |-> value
    writes,        \* cell |-> number of stores into it
    cut,           \* worker 1 has the flat pixel indices [0, cut), worker 2 the rest
    pos,           \* pos[w]: the next flat pixel index of worker w
    kernel_calls,  \* calls of *_point in the current call of generate
    outcome,       \* of the last generate: "none", "returned", "raised"
    error,         \* the exception raised, or "none"
    printed,       \* generate wrote to standard output
    saved,         \* the command saved an image
    cli_end,       \* how the last command ended, "none" before that
    parse,         \* the last call of parse_julia_c: its input and what it
                   \* gave, <<>> when there was none
    kernel,        \* a direct call of mandelbrot_point / julia_point: its
                   \* inputs and its return value, <<>> when there was none
    elapsed,       \* time.time() - start_time of generate, None before it
                   \* is taken
    famous,        \* JuliaGenerator.famous_julia_sets
    default_params,\* default_params of the two generators, by kind
    args,          \* the arguments of the last call of generate, <<>> when
                   \* there was none
    array,         \* the identity of the array result, 0 when there is none
    prev,          \* a grid an earlier call returned and the caller still
                   \* holds: its identity, its cells now and its cells when it
                   \* was returned; <<>> when there is none
    cli,           \* the configuration and the options of the last command,
                   \* <<>> when there was none
    extent,        \* the extents images were drawn with: by
                   \* save_fractal_image and by plot; <<>> when none was drawn
    gallery        \* the position of generate_preset_gallery in the table, 0
                   \* when it does not run

vars == <<pc, via, kind, verbose, params, c, view, result, writes, cut, pos,
          kernel_calls, outcome, error, printed, saved, cli_end, parse,
          kernel, elapsed, famous, default_params, args, array, prev, cli,
          extent, gallery>>

Workers == {1, 2}

NPixels == params.width * params.height

\* the flat pixel indices of worker w: [Lo(w), Hi(w))
Lo(w) == IF w = 1 THEN 0 ELSE cut
Hi(w) == IF w = 1 THEN cut ELSE NPixels

Init ==
    /\ pc = "ready"
    /\ via = "api"
    /\ kind = "mandelbrot"
    /\ verbose = FALSE
    /\ params = <<>>
    /\ c = CZero
    /\ view = <<>>
    /\ result = <<>>
    /\ writes = <<>>
    /\ cut = 0
    /\ pos = <<0, 0>>
    /\ kernel_calls = 0
    /\ outcome = "none"
    /\ error = "none"
    /\ printed = FALSE
    /\ saved = FALSE
    /\ cli_end = "none"
    /\ parse = <<>>
    /\ kernel = <<>>
    /\ elapsed = None
    /\ famous = famous_julia_sets
    /\ default_params = [mandelbrot |-> MandelbrotDefaults,
                         julia |-> JuliaDefaults]
    /\ args = <<>>
    /\ array = 0
    /\ prev = <<>>
    /\ cli = <<>>
    /\ extent = <<>>
    /\ gallery = 0

\* -------------------------------- generate ------------------------------
\* generate raises exception e: nothing is returned
Raise(e) ==
    /\ pc' = "done"
    /\ outcome' = "raised"
    /\ error' = e
    /\ result' = <<>>
    /\ writes' = <<>>
    /\ cut' = 0
    /\ pos' = <<0, 0>>

\* generate raised at its entry with error e
EnterRaise(e) ==
    /\ Raise(e)
    /\ view' = <<>>
    /\ array' = 0

\* generate after calculate_bounds returned b: s is what the entry of
\* mandelbrot_set / julia_set gives, np.zeros and the increments, after which
\* the loops start
EnterSet(p, b, s) ==
    IF s.err # "none" THEN EnterRaise(s.err)
    ELSE /\ view' = [x_min |-> b.x_min, x_max |-> b.x_max,
                     y_min |-> b.y_min, y_max |-> b.y_max,
                     dx |-> s.dx, dy |-> s.dy]
         /\ result' = s.result
         /\ array' = NewArray(prev')
         /\ writes' = [cell \in DOMAIN s.result |-> 0]
         /\ \E k1 \in 0 .. p.width * p.height :
               /\ cut' = k1
               /\ pos' = <<0, k1>>
         /\ pc' = "pixels"
         /\ outcome' = "none"
         /\ error' = "none"

\* generate after the constant is resolved: the verbose header, then
\* calculate_bounds, whose outcome is b
EnterBounds(p, b) ==
    IF b.err # "none" THEN EnterRaise(b.err)
    ELSE EnterSet(p, b, SetProlog(p.width, p.height, b))

\* generate with the params dict p and pj, what parse_julia_c gave for julia_c
EnterParsed(k, p, pj, julia_c, vb, caller) ==
    /\ via' = caller
    /\ kind' = k
    /\ verbose' = vb
    /\ kernel_calls' = 0
    /\ saved' = FALSE
    /\ extent' = <<>>
    /\ parse' = (IF k = "julia"
                 THEN [arg |-> julia_c, ret |-> pj, calls |-> 1] ELSE <<>>)
    /\ kernel' = <<>>
    /\ elapsed' = None
    /\ default_params' = [default_params EXCEPT
                              ![k] = AfterCopy(default_params[k], p)]
    /\ famous' = famous
    /\ IF pj.err # "none"
       THEN /\ EnterRaise(pj.err)
            /\ params' = <<>>
            /\ c' = CZero
            /\ printed' = FALSE
       ELSE /\ params' = (IF k = "julia" THEN Put(p, "julia_c", pj.c) ELSE p)
            /\ c' = pj.c
            /\ printed' = vb
            /\ EnterBounds(p, calculate_bounds(p.x_center, p.y_center, p.zoom,
                                               p.width, p.height))
    /\ cli_end' = (IF caller = "cli" /\ outcome' = "raised"
                   THEN "unexpected_error" ELSE "none")

\* generate from its entry to the loops of mandelbrot_set / julia_set: the
\* params dict, the Julia constant, the verbose header, calculate_bounds,
\* np.zeros and the increments.  The caller's own variables (prev, cli,
\* gallery) are set by the action that calls it.
GenerateEnter(k, a, julia_c, vb, caller) ==
    /\ args' = a
    /\ EnterParsed(k,
                   MergeArgs(default_params[k], a),
                   IF k = "mandelbrot" THEN Parsed(CZero, "none", 0)
                   ELSE parse_julia_c(famous, julia_c),
                   julia_c, vb, caller)

\* a caller invokes MandelbrotGenerator.generate
GenerateMandelbrot ==
    /\ pc = "ready"
    /\ UNCHANGED <<prev, cli, gallery>>
    /\ \E w \in DimArgs, h \in DimArgs, it \in IterArgs, z \in ZoomArgs,
          ctr \in MandelbrotCenterArgs, vb \in BOOLEAN :
          GenerateEnter("mandelbrot",
                        [width |-> w, height |-> h, max_iter |-> it, zoom |-> z,
                         x_center |-> ctr[1], y_center |-> ctr[2],
                         colormap |-> None],
                        InComplex(CZero), vb, "api")

\* a caller invokes JuliaGenerator.generate
GenerateJulia ==
    /\ pc = "ready"
    /\ UNCHANGED <<prev, cli, gallery>>
    /\ \E jc \in JuliaCArgs, w \in DimArgs, h \in DimArgs, it \in IterArgs,
          z \in ZoomArgs, ctr \in CenterArgs, vb \in BOOLEAN :
          GenerateEnter("julia",
                        [width |-> w, height |-> h, max_iter |-> it, zoom |-> z,
                         x_center |-> ctr[1], y_center |-> ctr[2],
                         colormap |-> None],
                        jc, vb, "api")

\* a caller keeps the grid a call of generate returned and calls generate
\* again, of either generator, with no argument but verbose
GenerateAgain ==
    /\ pc = "done"
    /\ via = "api"
    /\ outcome = "returned"
    /\ DOMAIN prev = {}
    /\ prev' = [id |-> array, cells |-> result, returned |-> result]
    /\ UNCHANGED <<cli, gallery>>
    /\ \E k \in {"mandelbrot", "julia"} :
          GenerateEnter(k, NoArgs, JuliaCDefault, FALSE, "api")

\* one iteration of the loop body of *_set, by worker w
Pixel(w) ==
    /\ pc = "pixels"
    /\ pos[w] < Hi(w)
    /\ LET y == pos[w] \div params.width
           x == pos[w] % params.width
           v == PixelValue(kind, PixelPoint(view, view.dx, view.dy, y, x), c,
                           params.max_iter)
       IN  /\ result' = StoreCell(result, y, x, v)
           /\ writes' = [writes EXCEPT ![<<y, x>>] = @ + 1]
    /\ prev' = (IF DOMAIN prev # {} /\ prev.id = array
                THEN [prev EXCEPT !.cells = result'] ELSE prev)
    /\ pos' = [pos EXCEPT ![w] = @ + 1]
    /\ kernel_calls' = kernel_calls + 1
    /\ UNCHANGED <<pc, via, kind, verbose, params, c, view, cut, outcome,
                   error, printed, saved, cli_end, parse, kernel, elapsed,
                   famous, default_params, args, array, cli, extent, gallery>>

\* the loops are done: *_set returns, generate measures the time, prints the
\* throughput when verbose, and returns (fractal_data, params)
GenerateExit ==
    /\ pc = "pixels"
    /\ \A w \in Workers : pos[w] = Hi(w)
    /\ \E t \in Elapsed :
          /\ elapsed' = Some(t)
          /\ IF verbose /\ t = 0
             THEN /\ Raise("ZeroDivisionError")
                  /\ cli_end' = (IF via = "cli" THEN "unexpected_error"
                                 ELSE cli_end)
             ELSE /\ pc' = (IF via = "cli" THEN "cli_save"
                            ELSE IF via = "gallery" THEN "gallery_plot"
                            ELSE "done")
                  /\ outcome' = "returned"
                  /\ UNCHANGED <<error, result, writes, cut, pos, cli_end>>
    /\ UNCHANGED <<via, kind, verbose, params, c, view, kernel_calls, printed,
                   saved, parse, kernel, famous, default_params, args, array,
                   prev, cli, extent, gallery>>

\* -------------------------------- gallery -------------------------------
\* generate_preset_gallery up to its loop: os.makedirs and the first print
GeneratePresetGallery ==
    /\ pc = "ready"
    /\ pc' = "gallery"
    /\ gallery' = 1
    /\ via' = "gallery"
    /\ UNCHANGED <<kind, verbose, params, c, view, result, writes, cut, pos,
                   kernel_calls, outcome, error, printed, saved, cli_end,
                   parse, kernel, elapsed, famous, default_params, args,
                   array, prev, cli, extent>>

\* the loop of generate_preset_gallery takes the next item of the table and
\* calls generate on its constant
GalleryGenerate ==
    /\ pc = "gallery"
    /\ gallery <= Len(GalleryOrder)
    /\ UNCHANGED <<prev, cli, gallery>>
    /\ GenerateEnter("julia", GalleryArgs,
                     InComplex(famous[GalleryOrder[gallery]]), FALSE, "gallery")

\* generate returned: the loop body calls plot, which saves the image
GalleryPlot ==
    /\ pc = "gallery_plot"
    /\ pc' = "gallery"
    /\ gallery' = gallery + 1
    /\ saved' = TRUE
    /\ extent' = [save |-> <<>>, plot |-> plot_extent(params)]
    /\ UNCHANGED <<via, kind, verbose, params, c, view, result, writes, cut,
                   pos, kernel_calls, outcome, error, printed, cli_end, parse,
                   kernel, elapsed, famous, default_params, args, array, prev,
                   cli>>

\* the table is exhausted: generate_preset_gallery returns
GalleryEnd ==
    /\ pc = "gallery"
    /\ gallery > Len(GalleryOrder)
    /\ pc' = "done"
    /\ UNCHANGED <<via, kind, verbose, params, c, view, result, writes, cut,
                   pos, kernel_calls, outcome, error, printed, saved, cli_end,
                   parse, kernel, elapsed, famous, default_params, args, array,
                   prev, cli, extent, gallery>>

\* ---------------------------------- CLI ---------------------------------
\* a command up to and including its call of generate
CliCommand(cmd) ==
    /\ pc = "ready"
    /\ UNCHANGED <<prev, gallery>>
    /\ \E cfg \in Configs, o \in CliOptions, vb \in BOOLEAN,
          jc \in (IF cmd = "julia" THEN CliJuliaCArgs
                  ELSE {InComplex(CZero)}) :
          /\ cli' = [cfg |-> cfg, o |-> o]
          /\ LET r == CliResolve(cmd, cfg, o)
             IN  IF r.end = "generate"
                 THEN /\ GenerateEnter(cmd, r.args, jc, vb, "cli")
                 ELSE /\ cli_end' = r.end
                      /\ parse' = <<>>
                      /\ kernel' = <<>>
                      /\ elapsed' = None
                      /\ via' = "cli"
                      /\ kind' = cmd
                      /\ verbose' = vb
                      /\ params' = <<>>
                      /\ c' = CZero
                      /\ view' = <<>>
                      /\ result' = <<>>
                      /\ writes' = <<>>
                      /\ cut' = 0
                      /\ pos' = <<0, 0>>
                      /\ kernel_calls' = 0
                      /\ outcome' = "none"
                      /\ error' = "none"
                      /\ printed' = FALSE
                      /\ saved' = FALSE
                      /\ args' = <<>>
                      /\ array' = 0
                      /\ extent' = <<>>
                      /\ pc' = "done"
                      /\ UNCHANGED <<famous, default_params>>

CliMandelbrot == CliCommand("mandelbrot")

CliJulia == CliCommand("julia")

\* the command after generate returned: save_fractal_image, then plot when
\* --show is set
CliSave ==
    /\ pc = "cli_save"
    /\ pc' = "done"
    /\ saved' = TRUE
    /\ cli_end' = "saved"
    /\ \E show \in BOOLEAN :
          extent' = [save |-> calculate_extent(params),
                     plot |-> IF show THEN plot_extent(params) ELSE <<>>]
    /\ UNCHANGED <<via, kind, verbose, params, c, view, result, writes, cut,
                   pos, kernel_calls, outcome, error, printed, parse, kernel,
                   elapsed, famous, default_params, args, array, prev, cli,
                   gallery>>

\* the caller is done with what the call returned and may call again; the
\* generators keep their table and their default_params
Release ==
    /\ pc = "done"
    /\ pc' = "ready"
    /\ via' = "api"
    /\ kind' = "mandelbrot"
    /\ verbose' = FALSE
    /\ params' = <<>>
    /\ c' = CZero
    /\ view' = <<>>
    /\ result' = <<>>
    /\ writes' = <<>>
    /\ cut' = 0
    /\ pos' = <<0, 0>>
    /\ kernel_calls' = 0
    /\ outcome' = "none"
    /\ error' = "none"
    /\ printed' = FALSE
    /\ saved' = FALSE
    /\ cli_end' = "none"
    /\ parse' = <<>>
    /\ kernel' = <<>>
    /\ elapsed' = None
    /\ args' = <<>>
    /\ array' = 0
    /\ prev' = <<>>
    /\ cli' = <<>>
    /\ extent' = <<>>
    /\ gallery' = 0
    /\ UNCHANGED <<famous, default_params>>

\* ----------------------------- direct calls ----------------------------
\* a parse_julia_c that keeps the constant it resolved in the table
ParseJuliaCStoring ==
    /\ pc = "ready"
    /\ \E c_input \in ParseInputs :
          /\ parse' = [arg |-> c_input, ret |-> parse_julia_c(famous, c_input),
                       calls |-> 1]
          /\ famous' = [famous EXCEPT !.classic = parse'.ret.c]
    /\ pc' = "done"
    /\ UNCHANGED <<via, kind, verbose, params, c, view, result, writes, cut,
                   pos, kernel_calls, outcome, error, printed, saved, cli_end,
                   kernel, elapsed, default_params, args, array, prev,
                   cli, extent, gallery>>

\* a caller invokes JuliaGenerator.parse_julia_c
ParseJuliaC ==
    /\ pc = "ready"
    /\ \E c_input \in ParseInputs :
          parse' = [arg |-> c_input, ret |-> parse_julia_c(famous, c_input),
                    calls |-> 1]
    /\ pc' = "done"
    /\ UNCHANGED <<via, kind, verbose, params, c, view, result, writes, cut,
                   pos, kernel_calls, outcome, error, printed, saved, cli_end,
                   kernel, elapsed, famous, default_params, args, array, prev,
                   cli, extent, gallery>>

\* a caller invokes mandelbrot_point(c, max_iter)
CallMandelbrotPoint ==
    /\ pc = "ready"
    /\ \E cc \in KernelPoints, max_iter \in 0 .. MaxIter :
          kernel' = [fn |-> "mandelbrot_point", z0 |-> CZero, c |-> cc,
                     max_iter |-> max_iter,
                     ret |-> mandelbrot_point(cc, max_iter)]
    /\ pc' = "done"
    /\ UNCHANGED <<via, kind, verbose, params, c, view, result, writes, cut,
                   pos, kernel_calls, outcome, error, printed, saved, cli_end,
                   parse, elapsed, famous, default_params, args, array, prev,
                   cli, extent, gallery>>

\* a caller invokes julia_point(z, c, max_iter)
CallJuliaPoint ==
    /\ pc = "ready"
    /\ \E z \in KernelPoints, cc \in KernelConstants, max_iter \in 0 .. MaxIter :
          kernel' = [fn |-> "julia_point", z0 |-> z, c |-> cc,
                     max_iter |-> max_iter,
                     ret |-> julia_point(z, cc, max_iter)]
    /\ pc' = "done"
    /\ UNCHANGED <<via, kind, verbose, params, c, view, result, writes, cut,
                   pos, kernel_calls, outcome, error, printed, saved, cli_end,
                   parse, elapsed, famous, default_params, args, array, prev,
                   cli, extent, gallery>>

Next ==
    \/ GenerateMandelbrot
    \/ GenerateJulia
    \/ GenerateAgain
    \/ ParseJuliaC
    \/ CallMandelbrotPoint
    \/ CallJuliaPoint
    \/ \E w \in Workers : Pixel(w)
    \/ GenerateExit
    \/ GeneratePresetGallery
    \/ GalleryGenerate
    \/ GalleryPlot
    \/ GalleryEnd
    \/ CliMandelbrot
    \/ CliJulia
    \/ CliSave
    \/ Release

Spec == Init /\ [][Next]_vars

\* ================================ claims ================================
\* generate got as far as the loops of *_set: view and result are set
InSet == pc \in {"pixels", "cli_save"} \/ outcome = "returned"

\* the invariant of ViewParameters
ValidParams ==
    /\ params.width > 0
    /\ params.height > 0
    /\ RLess(RZero, params.zoom)
    /\ params.max_iter > 0

\* the loops of *_set have run to their end
LoopsDone == InSet /\ (pc = "pixels" => \A w \in Workers : pos[w] = Hi(w))

\* C1: with width, height, zoom and max_iter positive, every cell of the grid
\* generate returns is an integer between 0 and max_iter.
C1_CellsInRange ==
    (outcome = "returned" /\ ValidParams) =>
        \A cell \in DOMAIN result : result[cell] \in 0 .. params.max_iter

\* a returned grid holding max_iter in one cell and an escape index below it
\* in another
C1_Witness ==
    /\ outcome = "returned"
    /\ ValidParams
    /\ \E c1, c2 \in DOMAIN result :
          result[c1] = params.max_iter /\ result[c2] < params.max_iter

\* z_n of the recurrence z_0 = z0, z_{n+1} = z_n^2 + c
RECURSIVE Orbit(_, _, _)
Orbit(z0, cc, n) ==
    IF n = 0 THEN z0
    ELSE LET z == Orbit(z0, cc, n - 1) IN CAdd(CMul(z, z), cc)

\* r is the smallest index in [0, max_iter) whose orbit value has magnitude
\* above 2, or max_iter when there is none
IsFirstEscape(r, z0, cc, max_iter) ==
    /\ r \in 0 .. max_iter
    /\ \A j \in 0 .. r - 1 : ~AbsGt2(Orbit(z0, cc, j))
    /\ r < max_iter => AbsGt2(Orbit(z0, cc, r))

\* the plane point of pixel (row, col): x_min + col * (x_max - x_min) / width,
\* y_min + row * (y_max - y_min) / height, the quotient taken first
ClaimPoint(row, col) ==
    Complex(FAdd(view.x_min,
                 FMul(RInt(col),
                      FDiv(FSub(view.x_max, view.x_min), RInt(params.width)))),
            FAdd(view.y_min,
                 FMul(RInt(row),
                      FDiv(FSub(view.y_max, view.y_min), RInt(params.height)))))

\* the starting value and the constant of the kernel at plane point p
KernelZ0(p) == IF kind = "mandelbrot" THEN CZero ELSE p
KernelC(p) == IF kind = "mandelbrot" THEN p ELSE c

C3_GridSamplesPlane ==
    LoopsDone =>
        /\ DOMAIN result = Cells(params.width, params.height)
        /\ \A row \in 0 .. params.height - 1, col \in 0 .. params.width - 1 :
              result[<<row, col>>] =
                  IF kind = "mandelbrot"
                  THEN mandelbrot_point(ClaimPoint(row, col), params.max_iter)
                  ELSE julia_point(ClaimPoint(row, col), c, params.max_iter)
        /\ ClaimPoint(0, 0) = Complex(view.x_min, view.y_min)

\* a returned grid of two rows and two columns whose rows differ and whose
\* columns differ
C3_Witness ==
    /\ outcome = "returned"
    /\ params.width = 2 /\ params.height = 2
    /\ result[<<0, 0>>] # result[<<0, 1>>]
    /\ result[<<0, 0>>] # result[<<1, 0>>]
    /\ result[<<0, 1>>] # result[<<1, 0>>]

\* the grid the loops give when run by one worker in row-major order, from
\* flat index i on
RECURSIVE RowMajor(_, _)
RowMajor(res, i) ==
    IF i >= NPixels THEN res
    ELSE LET y == i \div params.width
             x == i % params.width
         IN  RowMajor(StoreCell(res, y, x,
                                PixelValue(kind, PixelPoint(view, view.dx, view.dy, y, x),
                                           c, params.max_iter)),
                      i + 1)

\* the flat indices worker w has stored
StoredBy(w) == Lo(w) .. pos[w] - 1

\* C4: the grid does not depend on the partition of the pixels among the
\* workers or on the order of their steps: a cell is stored only by the worker
\* that owns it and only once, and when the loops are done the grid is the one
\* the sequential row-major order gives.
C4_PartitionIndependent ==
    InSet =>
        /\ \A cell \in DOMAIN result :
              LET i == cell[1] * params.width + cell[2]
              IN  writes[cell] = Cardinality({w \in Workers : i \in StoredBy(w)})
        /\ \A cell \in DOMAIN result : writes[cell] <= 1
        /\ LoopsDone =>
              result = RowMajor([cell \in DOMAIN result |-> 0], 0)

\* both workers have pixels, worker 2 finished before worker 1 started, and
\* neighbouring cells differ
C4_Witness ==
    /\ pc = "pixels"
    /\ 0 < cut /\ cut < NPixels
    /\ pos[1] = 0
    /\ pos[2] = NPixels
    /\ \E cell \in DOMAIN result :
          /\ cell[1] * params.width + cell[2] = cut
          /\ result[cell] # 0

\* generate was entered and built its params dict
Called == DOMAIN params # {}

\* the exceptions that name a dimension: numpy's "negative dimensions are not
\* allowed"
DimensionErrors == {"ValueError"}

\* C5: with width <= 0 or height <= 0 generation fails with an error about the
\* dimension, before any pixel is computed.
C5_InvalidDimensionError ==
    (Called /\ (params.width <= 0 \/ params.height <= 0)) =>
        /\ outcome = "raised"
        /\ error \in DimensionErrors
        /\ kernel_calls = 0

\* C6: with max_iter <= 0 generation fails: no kernel call is made and no
\* grid is returned.
C6_InvalidIterationBoundError ==
    (Called /\ params.max_iter <= 0 /\ pc \in {"done", "cli_save"}) =>
        /\ outcome = "raised"
        /\ kernel_calls = 0

\* C7: the parameters a CLI command hands to generate, after the preset, the
\* explore point, the command-line options and validate_parameters, have
\* width, height, zoom and max_iter positive.
C7_CliParamsValid ==
    (via = "cli" /\ Called) => ValidParams

\* the inputs of calculate_bounds are those of the claims C8..C10, and it
\* returned bounds
BoundsInputsValid ==
    /\ Called
    /\ params.width > 0
    /\ params.height > 0
    /\ RLess(RZero, params.zoom)

\* no operation of calculate_bounds rounds at zoom z: the quotients, the
\* product, the half-extents and the four bounds are floats as they stand
NoRoundingAt(z) ==
    LET aspect == RDiv(RInt(params.width), RInt(params.height))
        base   == RDiv(RInt(4), z)
        xe     == RDiv(RMul(base, aspect), RInt(2))
        ye     == RDiv(base, RInt(2))
    IN  /\ IsFloat(aspect) /\ IsFloat(base) /\ IsFloat(RMul(base, aspect))
        /\ IsFloat(xe) /\ IsFloat(ye)
        /\ IsFloat(RSub(params.x_center, xe)) /\ IsFloat(RAdd(params.x_center, xe))
        /\ IsFloat(RSub(params.y_center, ye)) /\ IsFloat(RAdd(params.y_center, ye))

\* the relations of C8 on bounds b for zoom z, in exact arithmetic
AspectAndCenter(b, z) ==
    /\ RMul(RSub(b.x_max, b.x_min), RInt(params.height))
         = RMul(RSub(b.y_max, b.y_min), RInt(params.width))
    /\ RSub(b.y_max, b.y_min) = RDiv(RInt(4), z)
    /\ RAdd(b.x_min, b.x_max) = RMul(RInt(2), params.x_center)
    /\ RAdd(b.y_min, b.y_max) = RMul(RInt(2), params.y_center)

\* C8 as stated: for zoom, width, height > 0 the bounds have
\* (x_max - x_min) / (y_max - y_min) = width / height, y_max - y_min = 4 / zoom
\* and the center as the midpoint of both axes.
C8_AspectExact ==
    BoundsInputsValid => (DOMAIN view # {} /\ AspectAndCenter(view, params.zoom))

\* C8 amended: the same, when no operation of calculate_bounds rounds.
C8_AspectWhenExact ==
    (BoundsInputsValid /\ NoRoundingAt(params.zoom)) =>
        (DOMAIN view # {} /\ AspectAndCenter(view, params.zoom))

\* bounds of a grid that is wider than high, computed without rounding
C8_Witness ==
    /\ BoundsInputsValid
    /\ NoRoundingAt(params.zoom)
    /\ params.width = 2 /\ params.height = 1
    /\ params.zoom = RInt(2)
    /\ DOMAIN view # {}

\* the bounds for the center, width and height of params at zoom z
BoundsAt(z) ==
    calculate_bounds(params.x_center, params.y_center, z, params.width,
                     params.height)

\* zooms above the zoom of params
LargerZooms == {FMul(RInt(2), params.zoom), FMul(RInt(3), params.zoom)}

\* region b2 lies in region b1
Contained(b2, b1) ==
    /\ RLeq(b1.x_min, b2.x_min) /\ RLeq(b2.x_max, b1.x_max)
    /\ RLeq(b1.y_min, b2.y_min) /\ RLeq(b2.y_max, b1.y_max)

\* region b holds the center
HoldsCenter(b) ==
    /\ RLeq(b.x_min, params.x_center) /\ RLeq(params.x_center, b.x_max)
    /\ RLeq(b.y_min, params.y_center) /\ RLeq(params.y_center, b.y_max)

\* doubling the zoom z halves both extents
Halves(z) ==
    LET b1 == BoundsAt(z)
        b2 == BoundsAt(FMul(RInt(2), z))
    IN  /\ RMul(RInt(2), RSub(b2.x_max, b2.x_min)) = RSub(b1.x_max, b1.x_min)
        /\ RMul(RInt(2), RSub(b2.y_max, b2.y_min)) = RSub(b1.y_max, b1.y_min)

\* C9 as stated: doubling zoom halves both extents, and for zoom1 < zoom2 the
\* region for zoom2 is strictly contained in the region for zoom1 and both
\* hold the center.
C9_ZoomShrinksStrictly ==
    BoundsInputsValid =>
        /\ Halves(params.zoom)
        /\ \A z2 \in LargerZooms :
              /\ Contained(BoundsAt(z2), BoundsAt(params.zoom))
              /\ BoundsAt(z2) # BoundsAt(params.zoom)
              /\ HoldsCenter(BoundsAt(z2))
              /\ HoldsCenter(BoundsAt(params.zoom))

\* C9 amended: for zoom1 < zoom2 the region for zoom2 is contained in the
\* region for zoom1 and both hold the center; when no operation rounds at
\* either zoom the containment is strict and doubling zoom halves both extents.
C9_ZoomShrinks ==
    BoundsInputsValid =>
        /\ \A z2 \in LargerZooms :
              /\ Contained(BoundsAt(z2), BoundsAt(params.zoom))
              /\ HoldsCenter(BoundsAt(z2))
              /\ HoldsCenter(BoundsAt(params.zoom))
              /\ (NoRoundingAt(params.zoom) /\ NoRoundingAt(z2)) =>
                    BoundsAt(z2) # BoundsAt(params.zoom)
        /\ (NoRoundingAt(params.zoom) /\ NoRoundingAt(FMul(RInt(2), params.zoom))) =>
              Halves(params.zoom)

\* bounds computed without rounding at the zoom of params and at twice that
C9_Witness ==
    /\ BoundsInputsValid
    /\ DOMAIN view # {}
    /\ view.x_min # view.x_max
    /\ NoRoundingAt(params.zoom)
    /\ NoRoundingAt(FMul(RInt(2), params.zoom))
    /\ params.width # params.height

\* C10 as stated: for zoom, width, height > 0 calculate_bounds raises no error
\* and returns x_min < x_max and y_min < y_max.
C10_BoundsStrictlyOrdered ==
    BoundsInputsValid =>
        /\ DOMAIN view # {}
        /\ RLess(view.x_min, view.x_max)
        /\ RLess(view.y_min, view.y_max)

\* C10 amended: calculate_bounds raises no error and returns x_min <= x_max and
\* y_min <= y_max, with x_min < x_max and y_min < y_max when no operation
\* rounds.
C10_BoundsOrdered ==
    BoundsInputsValid =>
        /\ DOMAIN view # {}
        /\ RLeq(view.x_min, view.x_max)
        /\ RLeq(view.y_min, view.y_max)
        /\ NoRoundingAt(params.zoom) =>
              (RLess(view.x_min, view.x_max) /\ RLess(view.y_min, view.y_max))

\* bounds whose half-extents were lost when added to the center
C10_Witness ==
    /\ BoundsInputsValid
    /\ DOMAIN view # {}
    /\ view.x_min = view.x_max
    /\ view.y_min = view.y_max

\* parse_julia_c was called
ParseDone == DOMAIN parse # {}

\* preset names in several letter cases, with the name of the table and the
\* constant the source gives it
PresetCases ==
    {[text |-> <<"c", "l", "a", "s", "s", "i", "c">>, name |-> "classic",
      re |-> Rat(-7, 10), im |-> Rat(27015, 100000)],
     [text |-> <<"C", "L", "A", "S", "S", "I", "C">>, name |-> "classic",
      re |-> Rat(-7, 10), im |-> Rat(27015, 100000)],
     [text |-> <<"D", "r", "a", "g", "o", "n">>, name |-> "dragon",
      re |-> Rat(-8, 10), im |-> Rat(156, 1000)],
     [text |-> <<"s", "P", "i", "R", "a", "L">>, name |-> "spiral",
      re |-> Rat(-7, 10), im |-> Rat(-3, 10)]}

\* C11: parse_julia_c on a string that names a preset in any letter case
\* returns that preset's constant ("classic" gives -0.7+0.27015i), found by
\* the lookup in the table, without parsing the string as a literal.
C11_PresetLookupIgnoresCase ==
    ParseDone =>
        \A p \in PresetCases :
            parse.arg = Str(p.text) =>
                /\ parse.ret.err = "none"
                /\ parse.ret.c = famous_julia_sets[p.name]
                /\ parse.ret.c = Complex(Fl(p.re), Fl(p.im))
                /\ parse.ret.path = "preset"

\* parse_julia_c("CLASSIC") returned the constant of "classic"
C11_Witness ==
    /\ ParseDone
    /\ parse.arg = Str(<<"C", "L", "A", "S", "S", "I", "C">>)
    /\ parse.ret.err = "none"
    /\ parse.ret.c = famous_julia_sets.classic

\* strings of the form <real><sign><imag> with the suffix i or j, with the
\* real and the imaginary part they denote
LiteralCases ==
    {[text |-> <<"0", ".", "3", "+", "0", ".", "5", "i">>,
      re |-> Rat(3, 10), im |-> Rat(1, 2)],
     [text |-> <<"0", ".", "3", "+", "0", ".", "5", "j">>,
      re |-> Rat(3, 10), im |-> Rat(1, 2)],
     [text |-> <<"-", "0", ".", "7", "-", "0", ".", "2", "7", "i">>,
      re |-> Rat(-7, 10), im |-> Rat(-27, 100)],
     [text |-> <<"1", "+", "2", "i">>, re |-> RInt(1), im |-> RInt(2)],
     [text |-> <<"-", ".", "5", "+", "1", ".", "j">>,
      re |-> Rat(-1, 2), im |-> RInt(1)]}

\* C12: parse_julia_c on a string that is no preset name and has the form
\* <real><sign><imag> followed by i or j returns the complex number with that
\* real and that imaginary part (each the float nearest to the decimal).
C12_LiteralParsed ==
    ParseDone =>
        \A l \in LiteralCases :
            parse.arg = Str(l.text) =>
                /\ parse.ret.err = "none"
                /\ parse.ret.c = Complex(Fl(l.re), Fl(l.im))

\* parse_julia_c("-0.7-0.27i") returned a constant with both parts negative
C12_Witness ==
    /\ ParseDone
    /\ parse.arg = Str(<<"-", "0", ".", "7", "-", "0", ".", "2", "7", "i">>)
    /\ parse.ret.err = "none"
    /\ parse.ret.path = "literal"
    /\ RLess(parse.ret.c.re, RZero)
    /\ RLess(parse.ret.c.im, RZero)

\* strings that are neither a preset name nor a complex literal
BadStrings ==
    {<<"b", "o", "g", "u", "s">>,
     <<"h", "i">>,
     <<"a", " ", "b">>,
     <<"1", "+", "2">>,
     <<"1", "+", "+", "2", "i">>}

\* C13: parse_julia_c on a string that is neither a preset name nor a complex
\* literal raises ValueError, and the message holds the string as the caller
\* passed it and names both accepted formats, the preset name and the literal.
C13_ErrorReportsInput ==
    (ParseDone /\ parse.arg.tag = "str" /\ parse.arg.str \in BadStrings) =>
        /\ parse.ret.err = "ValueError"
        /\ parse.ret.shown = parse.arg.str
        /\ {"preset", "literal"} \subseteq parse.ret.formats

\* C14: parse_julia_c returns a complex input unchanged, and for a pair
\* (real, imag) the complex number with those two components; neither path
\* uses the table of presets.
C14_ComplexAndPairDirect ==
    ParseDone =>
        /\ parse.arg.tag = "complex" =>
              /\ parse.ret.err = "none"
              /\ parse.ret.c = parse.arg.z
              /\ parse.ret.lookups = 0
        /\ (parse.arg.tag = "seq" /\ Len(parse.arg.seq) = 2) =>
              /\ parse.ret.err = "none"
              /\ parse.ret.c = Complex(parse.arg.seq[1], parse.arg.seq[2])
              /\ parse.ret.lookups = 0

\* parse_julia_c returned the constant of a pair whose components differ
C14_Witness ==
    /\ ParseDone
    /\ parse.arg.tag = "seq"
    /\ Len(parse.arg.seq) = 2
    /\ parse.arg.seq[1] # parse.arg.seq[2]
    /\ parse.ret.err = "none"
    /\ parse.ret.path = "pair"

\* mandelbrot_point or julia_point was called directly
KernelDone == DOMAIN kernel # {}

\* re^2 + im^2, exactly
Norm2(z) == RAdd(RMul(z.re, z.re), RMul(z.im, z.im))

\* a Mandelbrot grid whose loops have started, with max_iter > 0
MandelbrotGrid == InSet /\ kind = "mandelbrot" /\ params.max_iter > 0

\* C15: for every max_iter > 0 the Mandelbrot kernel at c = (0, 0) reports
\* max_iter, and so does the pixel of a Mandelbrot grid whose plane coordinate
\* is (0, 0).
C15_OriginNeverEscapes ==
    /\ (KernelDone /\ kernel.fn = "mandelbrot_point" /\ kernel.c = CZero
          /\ kernel.max_iter > 0) =>
           kernel.ret = kernel.max_iter
    /\ MandelbrotGrid =>
           \A cell \in DOMAIN result :
               (writes[cell] > 0 /\ ClaimPoint(cell[1], cell[2]) = CZero) =>
                   result[cell] = params.max_iter

\* a returned Mandelbrot grid with a pixel at the origin, and a pixel that
\* escaped next to it
C15_Witness ==
    /\ outcome = "returned"
    /\ kind = "mandelbrot"
    /\ params.max_iter = MaxIter
    /\ \E c1, c2 \in DOMAIN result :
          /\ ClaimPoint(c1[1], c1[2]) = CZero
          /\ result[c1] = params.max_iter
          /\ result[c2] < params.max_iter

\* a point far outside the disk of radius 2: its magnitude is 3 or more
Far(p) == RLeq(RInt(9), Norm2(p))

\* C16 as stated: the Mandelbrot kernel at a point far outside the disk of
\* radius 2, such as (3, 3), reports iteration 0 for every max_iter > 0.
C16_FarPointReportsZero ==
    (KernelDone /\ kernel.fn = "mandelbrot_point" /\ Far(kernel.c)
       /\ kernel.max_iter > 0) =>
        kernel.ret = 0

\* C16 amended: the Mandelbrot kernel at a point far outside the disk of
\* radius 2 reports iteration 1 for every max_iter > 0 (index 0 tests z0 = 0,
\* which never escapes), in a direct call and in a grid.
C16_FarPointReportsOne ==
    /\ (KernelDone /\ kernel.fn = "mandelbrot_point" /\ Far(kernel.c)
          /\ kernel.max_iter > 0) =>
           kernel.ret = 1
    /\ MandelbrotGrid =>
           \A cell \in DOMAIN result :
               (writes[cell] > 0 /\ Far(ClaimPoint(cell[1], cell[2]))) =>
                   result[cell] = 1

\* mandelbrot_point((3, 3), max_iter) was called with the largest max_iter
C16_Witness ==
    /\ KernelDone
    /\ kernel.fn = "mandelbrot_point"
    /\ kernel.c = Complex(RInt(3), RInt(3))
    /\ kernel.max_iter = MaxIter
    /\ kernel.ret = 1

\* the smallest float above 2.0
NextAbove2 == Rat(Pow2(MantBits - 1) + 1, Pow2(MantBits - 2))

\* C17 as stated: the Julia kernel reports iteration 0 for every z0 with
\* |z0| > 2, every constant c and every max_iter > 0.
C17_OutsideEscapesAtZero ==
    (KernelDone /\ kernel.fn = "julia_point" /\ RLess(RInt(4), Norm2(kernel.z0))
       /\ kernel.max_iter > 0) =>
        kernel.ret = 0

\* C17 amended: the Julia kernel reports iteration 0 for every z0 whose
\* magnitude is at least the smallest float above 2.0, every constant c and
\* every max_iter > 0, in a direct call and in a grid.
C17_ClearlyOutsideEscapesAtZero ==
    /\ (KernelDone /\ kernel.fn = "julia_point"
          /\ RLeq(RMul(NextAbove2, NextAbove2), Norm2(kernel.z0))
          /\ kernel.max_iter > 0) =>
           kernel.ret = 0
    /\ (InSet /\ kind = "julia" /\ params.max_iter > 0) =>
           \A cell \in DOMAIN result :
               (/\ writes[cell] > 0
                /\ RLeq(RMul(NextAbove2, NextAbove2),
                        Norm2(ClaimPoint(cell[1], cell[2])))) =>
                   result[cell] = 0

\* julia_point(2.5, -1, max_iter) returned 0
C17_Witness ==
    /\ KernelDone
    /\ kernel.fn = "julia_point"
    /\ kernel.z0 = Complex(Rat(5, 2), RZero)
    /\ kernel.c = Complex(RInt(-1), RZero)
    /\ kernel.max_iter = MaxIter
    /\ kernel.ret = 0

\* C18: the Julia kernel with c = 0 reports max_iter for a starting point of
\* magnitude exactly 1, and for a starting point of magnitude 1.5 an index
\* below max_iter whenever max_iter >= 2.
C18_UnitCircleStaysOneAndHalfEscapes ==
    (KernelDone /\ kernel.fn = "julia_point" /\ kernel.c = CZero
       /\ kernel.max_iter > 0) =>
        /\ Norm2(kernel.z0) = RInt(1) => kernel.ret = kernel.max_iter
        /\ (Norm2(kernel.z0) = Rat(9, 4) /\ kernel.max_iter >= 2) =>
              kernel.ret < kernel.max_iter

\* julia_point(1.5, 0, 2) returned an index below 2
C18_Witness ==
    /\ KernelDone
    /\ kernel.fn = "julia_point"
    /\ kernel.c = CZero
    /\ kernel.z0 = Complex(Rat(3, 2), RZero)
    /\ kernel.max_iter = 2
    /\ kernel.ret < 2

\* generate ran its loops to the end and took the time
Timed == ~IsNone(elapsed)

\* C19: the timing and the throughput report do not affect what generate
\* returns: once the loops are done, generate returns the grid of the
\* parameters whether verbose is true or false and whatever the elapsed time
\* is, zero included; the report never makes a successful generation fail.
C19_ReportingObservational ==
    Timed =>
        /\ outcome = "returned"
        /\ error = "none"
        /\ DOMAIN result = Cells(params.width, params.height)
        /\ result = RowMajor([cell \in Cells(params.width, params.height) |-> 0], 0)

\* C20: errors come before the grid and leave nothing behind.  In
\* JuliaGenerator.generate the constant is resolved once, before the bounds
\* and before julia_set: when parse_julia_c fails no pixel is computed and no
\* grid or params are returned.  In the CLI commands a failed preset lookup,
\* explore lookup or validation ends the command with the generator never
\* called and nothing saved; nothing is saved without a returned grid.
C20_ErrorsBeforeGeneration ==
    /\ (kind = "julia" /\ pc # "ready") =>
           (cli_end \in {"preset_error", "explore_error", "validation_error"}
              \/ (ParseDone /\ parse.calls = 1))
    /\ (kind = "julia" /\ ParseDone /\ DOMAIN view # {}) => c = parse.ret.c
    /\ (kind = "julia" /\ ParseDone /\ parse.arg.tag = "str"
          /\ parse.arg.str \in BadStrings) =>
           /\ outcome = "raised"
           /\ error = "ValueError"
           /\ kernel_calls = 0
           /\ DOMAIN view = {}
           /\ DOMAIN result = {}
           /\ DOMAIN params = {}
           /\ ~saved
           /\ via = "cli" => cli_end = "unexpected_error"
    /\ (via = "cli"
          /\ cli_end \in {"preset_error", "explore_error", "validation_error"}) =>
           /\ pc = "done"
           /\ outcome = "none"
           /\ ~Called
           /\ ~ParseDone
           /\ kernel_calls = 0
           /\ DOMAIN result = {}
           /\ ~saved
    /\ saved => outcome = "returned"

\* the julia command ended on a constant that parse_julia_c rejected, with
\* nothing generated and nothing saved
C20_Witness ==
    /\ via = "cli"
    /\ kind = "julia"
    /\ ParseDone
    /\ parse.arg = Str(<<"h", "i">>)
    /\ parse.ret.err = "ValueError"
    /\ outcome = "raised"
    /\ cli_end = "unexpected_error"
    /\ kernel_calls = 0
    /\ ~saved

\* C24: the two kernels are one recurrence: mandelbrot_point(c, max_iter) =
\* julia_point(0, c, max_iter) for every c and max_iter, and every cell of a
\* Mandelbrot grid is what the Julia kernel gives for z0 = 0 and c the plane
\* point of the pixel.
C24_KernelsAgree ==
    /\ KernelDone =>
           /\ mandelbrot_point(kernel.c, kernel.max_iter)
                = julia_point(CZero, kernel.c, kernel.max_iter)
           /\ kernel.fn = "mandelbrot_point" =>
                  kernel.ret = julia_point(CZero, kernel.c, kernel.max_iter)
    /\ (InSet /\ kind = "mandelbrot") =>
           \A cell \in DOMAIN result :
               writes[cell] > 0 =>
                   result[cell] = julia_point(CZero, ClaimPoint(cell[1], cell[2]),
                                              params.max_iter)

\* a returned Mandelbrot grid with an escaped cell and a cell that did not
\* escape
C24_Witness ==
    /\ outcome = "returned"
    /\ kind = "mandelbrot"
    /\ params.max_iter = MaxIter
    /\ \E c1, c2 \in DOMAIN result :
          /\ result[c1] = params.max_iter
          /\ result[c2] \in 1 .. params.max_iter - 1

C27_EscapeTestStrict ==
    KernelDone =>
        /\ (kernel.fn = "julia_point" /\ kernel.z0 = Complex(RInt(2), RZero)
              /\ kernel.c = CZero /\ kernel.max_iter >= 2) =>
               kernel.ret = 1
        /\ (kernel.fn = "mandelbrot_point" /\ kernel.c = Complex(RInt(-2), RZero)
              /\ kernel.max_iter > 0) =>
               kernel.ret = kernel.max_iter

\* mandelbrot_point(-2, max_iter) ran the largest number of iterations
C27_Witness ==
    /\ KernelDone
    /\ kernel.fn = "mandelbrot_point"
    /\ kernel.c = Complex(RInt(-2), RZero)
    /\ kernel.max_iter = MaxIter
    /\ kernel.ret = MaxIter

\* the kernel fn on z0, cc with the bound m
KernelAt(fn, z0, cc, m) ==
    IF fn = "mandelbrot_point" THEN mandelbrot_point(cc, m)
    ELSE julia_point(z0, cc, m)

Min(a, b) == IF a <= b THEN a ELSE b

\* C28: for 0 < m <= m' the kernel's result for m is the minimum of m and its
\* result for m'; the result never exceeds max_iter, the number of loop steps.
C28_PrefixConsistent ==
    (KernelDone /\ kernel.max_iter > 0) =>
        /\ kernel.ret \in 0 .. kernel.max_iter
        /\ \A m \in 1 .. kernel.max_iter :
              KernelAt(kernel.fn, kernel.z0, kernel.c, m) = Min(kernel.ret, m)

\* julia_point with the largest max_iter on a point that escapes after index 0
\* and before the bound
C28_Witness ==
    /\ KernelDone
    /\ kernel.fn = "julia_point"
    /\ kernel.max_iter = MaxIter
    /\ kernel.ret \in 1 .. MaxIter - 1

\* C22 as stated: the fractal core never prints: while either generate runs,
\* and after it, nothing was written to standard output by it.
C22_CoreNeverPrints ==
    via = "api" => ~printed

DefaultsAtInit == [mandelbrot |-> MandelbrotDefaults, julia |-> JuliaDefaults]

\* C23: generate builds its params dict and its grid anew: default_params is
\* never changed, an argument that is None takes the default and any other
\* appears unchanged in params, a call with no overrides after any calls still
\* uses the defaults, and a grid returned earlier is not altered by a later
\* call.
C23_FreshParamsAndGrid ==
    /\ default_params = DefaultsAtInit
    /\ Called =>
           \A key \in GeneratorKeys :
               params[key] = IF key \in DOMAIN args /\ ~IsNone(args[key])
                             THEN Val(args[key])
                             ELSE DefaultsAtInit[kind][key]
    /\ DOMAIN prev # {} =>
           /\ prev.cells = prev.returned
           /\ array # prev.id
           /\ Called => \A key \in GeneratorKeys :
                            params[key] = DefaultsAtInit[kind][key]

\* a caller holds the grid of an earlier call while a later call with no
\* overrides has returned another grid
C23_Witness ==
    /\ DOMAIN prev # {}
    /\ pc = "done"
    /\ outcome = "returned"
    /\ kind = "julia"
    /\ DOMAIN prev.returned # DOMAIN result
    /\ \E cell \in DOMAIN prev.returned : prev.returned[cell] = MaxIter

\* the name of the command-line option that sets a key of params
CliOptionOf(key) == IF key = "max_iter" THEN "iterations" ELSE key

\* the quality preset the last command named, <<>> when it named none
CliPreset ==
    IF IsNone(cli.o.preset) THEN <<>>
    ELSE cli.cfg.quality_presets[Val(cli.o.preset)]

\* C25: a command merges generator defaults, then the quality preset, then the
\* explicit options: for width, height, max_iter, zoom and colormap the value
\* of the command line is used when given, else the value of the preset when
\* it sets the key, else the generator's default.
C25_CliMergeOrder ==
    (DOMAIN cli # {} /\ Called) =>
        \A key \in {"width", "height", "max_iter", "zoom", "colormap"} :
            params[key] = IF ~IsNone(cli.o[CliOptionOf(key)])
                          THEN Val(cli.o[CliOptionOf(key)])
                          ELSE IF key \in DOMAIN CliPreset
                          THEN CliPreset[key]
                          ELSE DefaultsAtInit[kind][key]

\* a command with a preset and --iterations returned a grid: the option won
\* over the preset's max_iter, the preset's width over the default, and the
\* default zoom was used
C25_Witness ==
    /\ DOMAIN cli # {}
    /\ outcome = "returned"
    /\ cli.o.preset = Some("preview")
    /\ cli.o.iterations = Some(0)
    /\ IsNone(cli.o.width)
    /\ IsNone(cli.o.zoom)
    /\ params.max_iter = 0
    /\ params.width = 1
    /\ params.width # DefaultsAtInit[kind].width
    /\ params.zoom = RInt(1)

\* C29 as stated: the extent an image is drawn with, by save_fractal_image and
\* by plot, is the (x_min, x_max, y_min, y_max) calculate_bounds returned for
\* the grid.
C29_ExtentEqualsBounds ==
    DOMAIN extent # {} =>
        /\ extent.save # <<>> =>
               extent.save = <<view.x_min, view.x_max, view.y_min, view.y_max>>
        /\ extent.plot # <<>> =>
               extent.plot = <<view.x_min, view.x_max, view.y_min, view.y_max>>

\* C30: the mandelbrot command with --explore: for a known point the centre
\* generate uses is the point's, also when --center-x or --center-y is given;
\* for an unknown point the command ends without generating.
C30_ExploreOverridesCenter ==
    (DOMAIN cli # {} /\ kind = "mandelbrot" /\ ~IsNone(cli.o.explore)) =>
        LET points == Get(cli.cfg.interesting_points, "mandelbrot", <<>>)
            name   == Val(cli.o.explore)
        IN  IF name \in DOMAIN points
            THEN Called =>
                     /\ params.x_center = points[name][1]
                     /\ params.y_center = points[name][2]
            ELSE /\ pc = "done"
                 /\ cli_end \in {"preset_error", "explore_error"}
                 /\ ~Called
                 /\ outcome = "none"
                 /\ kernel_calls = 0
                 /\ DOMAIN result = {}
                 /\ ~saved

\* a command with --explore seahorse_valley and --center-x 1 saved a grid
\* centred on the point
C30_Witness ==
    /\ DOMAIN cli # {}
    /\ kind = "mandelbrot"
    /\ cli.o.explore = Some("seahorse_valley")
    /\ cli.o.center_x = Some(RInt(1))
    /\ saved
    /\ params.x_center = Rat(-3, 4)
    /\ params.y_center = Rat(1, 8)

====
